---- MODULE Spec2Model ----
(***************************************************************************)
(* The LS-8 emulator of src/ls8/cpu.py: the machine state of class CPU,    *)
(* the fetch-decode-execute loop CPU.run and the arithmetic unit CPU.alu.  *)
(* Values are Python integers (unbounded, never masked by the code);       *)
(* list accesses follow Python's indexing (a negative index counts from    *)
(* the end, an index outside -len..len-1 raises IndexError).               *)
(***************************************************************************)
EXTENDS Integers, Sequences, FiniteSets, TLC

VARIABLES
    ram,        \* self.ram: the 256 memory cells
    register,   \* self.register: the 8 registers
    PC,         \* self.PC
    FL,         \* self.FL
    running,    \* the local `running` of CPU.run
    fault,      \* "none", or how the process died: "SystemExit", "IndexError", "ValueError"
    output,     \* what the process has printed, in order
    history,    \* observation: the last two instructions the loop dispatched
    calls       \* observation: the CALLs not yet returned from

vars == <<ram, register, PC, FL, running, fault, output, history, calls>>

----------------------------------------------------------------------------
(* Opcodes, cpu.py lines 5-24. *)
HLT == 1
LDI == 130
PRN == 71
ADD == 160
MUL == 162
POP == 70
PUSH == 69
CALL == 80
RET == 17
CMP == 167
JMP == 84
JEQ == 85
JNE == 86
AND == 168
OR == 170
XOR == 171
NOT == 105
MOD == 164
SHL == 172
SHR == 173

AluOpcodes == {ADD, MUL, CMP, AND, OR, XOR, NOT, MOD, SHL, SHR}
Catalogue == AluOpcodes \cup {HLT, LDI, PRN, POP, PUSH, CALL, RET, JMP, JEQ, JNE}

MemSize == 256
NumRegs == 8
SP == 7
InitSP == 244

(* Flag bits written by CMP. *)
FlagL == 4
FlagG == 2
FlagE == 1

----------------------------------------------------------------------------
(* Python list indexing: list[i] for a list of length n. *)
ValidIdx(i, n) == i >= 0 - n /\ i < n
Idx(i, n) == IF i < 0 THEN i + n ELSE i

(* Python integer operators on unbounded two's-complement integers. *)
RECURSIVE Pow2(_)
Pow2(n) == IF n <= 0 THEN 1 ELSE 2 * Pow2(n - 1)

RECURSIVE BitAnd(_, _)
BitAnd(a, b) ==
    IF a = 0 \/ b = 0 THEN 0
    ELSE IF a = -1 THEN b
    ELSE IF b = -1 THEN a
    ELSE (IF a % 2 = 1 /\ b % 2 = 1 THEN 1 ELSE 0) + 2 * BitAnd(a \div 2, b \div 2)

RECURSIVE BitOr(_, _)
BitOr(a, b) ==
    IF a = 0 THEN b
    ELSE IF b = 0 THEN a
    ELSE IF a = -1 \/ b = -1 THEN -1
    ELSE (IF a % 2 = 1 \/ b % 2 = 1 THEN 1 ELSE 0) + 2 * BitOr(a \div 2, b \div 2)

RECURSIVE BitXor(_, _)
BitXor(a, b) ==
    IF a = 0 THEN b
    ELSE IF b = 0 THEN a
    ELSE IF a = -1 THEN 0 - b - 1
    ELSE IF b = -1 THEN 0 - a - 1
    ELSE (IF a % 2 # b % 2 THEN 1 ELSE 0) + 2 * BitXor(a \div 2, b \div 2)

BitNot(a) == 0 - a - 1

(* a % b of Python: the result has the sign of the divisor. *)
PyMod(a, b) == IF b > 0 THEN a % b ELSE 0 - ((0 - a) % (0 - b))

ShiftLeft(a, n) == a * Pow2(n)
ShiftRight(a, n) == a \div Pow2(n)

----------------------------------------------------------------------------
(* CPU.ram_read *)
ram_read(MAR) == ram[Idx(MAR, MemSize)]

(* The fetch of CPU.run: three reads, at PC, PC + 1 and PC + 2. *)
FetchOK == /\ ValidIdx(PC, MemSize)
           /\ ValidIdx(PC + 1, MemSize)
           /\ ValidIdx(PC + 2, MemSize)
ir == ram_read(PC)
operand_a == ram_read(PC + 1)
operand_b == ram_read(PC + 2)

ValidReg(r) == ValidIdx(r, NumRegs)
Reg(r) == Idx(r, NumRegs)

(* ir & 0b00010000 == 0 *)
AutoAdvances(i) == (i \div 16) % 2 = 0

(* The last statement of the loop body: PC += (ir >> 6) + 1 unless the    *)
(* instruction sets PC itself.                                             *)
AdvanceAlways(i, pc) == pc + (i \div 64) + 1
Advance(i, pc) == IF AutoAdvances(i) THEN pc + (i \div 64) + 1 ELSE pc

(* The stack pointer after the decrement of PUSH and CALL, and after the *)
(* increment of POP and RET.                                              *)
PushSPTwice(sp) == sp - 2
PushSP(sp) == sp - 1
PopSPStuck(sp) == sp
PopSP(sp) == sp + 1

(* The address CALL stores: self.PC + 2. *)
ReturnAddressShort(pc) == pc + 1
ReturnAddress(pc) == pc + 2

(* The divisor test of MOD: print('Error'); sys.exit(1). *)
ModFaultUnchecked(divisor) == IF divisor = 0 THEN "ZeroDivisionError" ELSE "none"
ModFault(divisor) == IF divisor = 0 THEN "SystemExit" ELSE "none"

(* The three branches of CMP in CPU.alu. *)
CmpFlagSwapped(a, b) == IF a < b THEN FlagG ELSE IF a > b THEN FlagL ELSE FlagE
CmpFlagAccumulates(a, b) == BitOr(FL, IF a < b THEN FlagL ELSE IF a > b THEN FlagG ELSE FlagE)
CmpFlag(a, b) == IF a < b THEN FlagL ELSE IF a > b THEN FlagG ELSE FlagE

(* The value CPU.alu writes into register[reg_a]; b is unused by NOT. *)
AluResultMulAdds(op, a, b) ==
    CASE op = ADD -> a + b
      [] op = MUL -> a + b
      [] op = AND -> BitAnd(a, b)
      [] op = OR  -> BitOr(a, b)
      [] op = XOR -> BitXor(a, b)
      [] op = NOT -> BitNot(a)
      [] op = MOD -> PyMod(a, b)
      [] op = SHL -> ShiftLeft(a, b)
      [] op = SHR -> ShiftRight(a, b)
AluResult(op, a, b) ==
    CASE op = ADD -> a + b
      [] op = MUL -> a * b
      [] op = AND -> BitAnd(a, b)
      [] op = OR  -> BitOr(a, b)
      [] op = XOR -> BitXor(a, b)
      [] op = NOT -> BitNot(a)
      [] op = MOD -> PyMod(a, b)
      [] op = SHL -> ShiftLeft(a, b)
      [] op = SHR -> ShiftRight(a, b)

----------------------------------------------------------------------------
(* Observation of the loop: what was dispatched, and in which state.  `done`*)
(* is FALSE when the handler raised before the end of the loop body.  For a *)
(* RET that returns from a recorded CALL, `depth` is the nesting depth of   *)
(* that CALL, `retp` its address and `retsp` the stack pointer before it.   *)
Recent(h) == IF h = <<>> THEN <<>> ELSE <<h[Len(h)]>>

Observed(done, depth, retp, retsp) ==
    [pc |-> PC, ir |-> ir, a |-> operand_a, b |-> operand_b, reg |-> register,
     mem |-> ram, fl |-> FL, done |-> done, depth |-> depth, retp |-> retp, retsp |-> retsp]

Observe(done) == history' = Recent(history) \o <<Observed(done, 0, 0, 0)>>

(* The CALLs still open: address of the CALL, stack pointer before it, and *)
(* the pushes not yet popped since.  The record is dropped as soon as the  *)
(* stack pointer is written other than by a push or a pop above the return *)
(* address.                                                                *)
Top == calls[Len(calls)]
RetMatched == calls # <<>> /\ Top.bal = 0
CallsAfterPush == IF calls = <<>> THEN calls ELSE [calls EXCEPT ![Len(calls)].bal = @ + 1]
CallsAfterPop(r) ==
    IF calls = <<>> \/ Reg(r) = SP \/ Top.bal = 0 THEN <<>>
    ELSE [calls EXCEPT ![Len(calls)].bal = @ - 1]
CallsAfterCall == Append(calls, [p |-> PC, sp |-> register[SP], bal |-> 0])
CallsAfterRet == IF RetMatched THEN SubSeq(calls, 1, Len(calls) - 1) ELSE <<>>
CallsAfterWrite(r) == IF Reg(r) = SP THEN <<>> ELSE calls

----------------------------------------------------------------------------
(* The loop body is entered while `running` and the process is alive; the  *)
(* handler is chosen by the elif chain on ir.                              *)
Dispatch(opc) == running /\ fault = "none" /\ FetchOK /\ ir = opc

(* An uncaught exception: the process dies where it is. *)
Raise(kind) ==
    /\ fault' = kind
    /\ Observe(FALSE)
    /\ UNCHANGED <<ram, register, PC, FL, running, output, calls>>

(* ram_read(PC), ram_read(PC + 1) or ram_read(PC + 2) raises IndexError. *)
FetchFault ==
    /\ running /\ fault = "none" /\ ~FetchOK
    /\ fault' = "IndexError"
    /\ UNCHANGED <<ram, register, PC, FL, running, output, history, calls>>

HltKeepsRunning ==
    /\ Dispatch(HLT)
    /\ PC' = Advance(ir, PC)
    /\ Observe(TRUE)
    /\ UNCHANGED <<ram, register, FL, running, fault, output, calls>>

Hlt ==
    /\ Dispatch(HLT)
    /\ running' = FALSE
    /\ PC' = Advance(ir, PC)
    /\ Observe(TRUE)
    /\ UNCHANGED <<ram, register, FL, fault, output, calls>>

Ldi ==
    /\ Dispatch(LDI)
    /\ IF ValidReg(operand_a)
       THEN /\ register' = [register EXCEPT ![Reg(operand_a)] = operand_b]
            /\ PC' = Advance(ir, PC)
            /\ calls' = CallsAfterWrite(operand_a)
            /\ Observe(TRUE)
            /\ UNCHANGED <<ram, FL, running, fault, output>>
       ELSE Raise("IndexError")

Prn ==
    /\ Dispatch(PRN)
    /\ IF ValidReg(operand_a)
       THEN /\ output' = Append(output, [kind |-> "value", val |-> register[Reg(operand_a)]])
            /\ PC' = Advance(ir, PC)
            /\ Observe(TRUE)
            /\ UNCHANGED <<ram, register, FL, running, fault, calls>>
       ELSE Raise("IndexError")

(* How CPU.alu(op, reg_a, reg_b) ends: "none" when it returns. *)
AluFault(op, ra, rb) ==
    IF op = NOT THEN (IF ValidReg(ra) THEN "none" ELSE "IndexError")
    ELSE IF op = MOD
         THEN IF ~ValidReg(rb) THEN "IndexError"
              ELSE IF ModFault(register[Reg(rb)]) # "none" THEN ModFault(register[Reg(rb)])
              ELSE IF ~ValidReg(ra) THEN "IndexError" ELSE "none"
    ELSE IF ~(ValidReg(ra) /\ ValidReg(rb)) THEN "IndexError"
    ELSE IF op \in {SHL, SHR} /\ register[Reg(rb)] < 0 THEN "ValueError"
    ELSE "none"

(* The handler of an ALU opcode: CPU.alu, then the PC advance. *)
Alu(op) ==
    LET f == AluFault(op, operand_a, operand_b) IN
    IF f # "none"
    THEN /\ fault' = f
         /\ output' = IF f = "SystemExit"
                      THEN Append(output, [kind |-> "Error", val |-> 0])
                      ELSE output
         /\ Observe(FALSE)
         /\ UNCHANGED <<ram, register, PC, FL, running, calls>>
    ELSE /\ IF op = CMP
            THEN /\ FL' = CmpFlag(register[Reg(operand_a)], register[Reg(operand_b)])
                 /\ UNCHANGED <<register, calls>>
            ELSE /\ register' = [register EXCEPT ![Reg(operand_a)] =
                                   AluResult(op, register[Reg(operand_a)],
                                             IF op = NOT THEN 0
                                             ELSE register[Reg(operand_b)])]
                 /\ calls' = CallsAfterWrite(operand_a)
                 /\ UNCHANGED FL
         /\ PC' = Advance(ir, PC)
         /\ Observe(TRUE)
         /\ UNCHANGED <<ram, running, fault, output>>

Add == Dispatch(ADD) /\ Alu(ADD)
Mul == Dispatch(MUL) /\ Alu(MUL)
Cmp == Dispatch(CMP) /\ Alu(CMP)
And == Dispatch(AND) /\ Alu(AND)
Or  == Dispatch(OR) /\ Alu(OR)
Xor == Dispatch(XOR) /\ Alu(XOR)
Not == Dispatch(NOT) /\ Alu(NOT)
Mod == Dispatch(MOD) /\ Alu(MOD)
Shl == Dispatch(SHL) /\ Alu(SHL)
Shr == Dispatch(SHR) /\ Alu(SHR)

Push ==
    /\ Dispatch(PUSH)
    /\ LET reg1 == [register EXCEPT ![SP] = PushSP(@)] IN
       IF ValidReg(operand_a) /\ ValidIdx(reg1[SP], MemSize)
       THEN /\ register' = reg1
            /\ ram' = [ram EXCEPT ![Idx(reg1[SP], MemSize)] = reg1[Reg(operand_a)]]
            /\ PC' = Advance(ir, PC)
            /\ calls' = CallsAfterPush
            /\ Observe(TRUE)
            /\ UNCHANGED <<FL, running, fault, output>>
       ELSE \* the decrement is done before register[operand_a] or ram_write raises
            /\ register' = reg1
            /\ fault' = "IndexError"
            /\ Observe(FALSE)
            /\ UNCHANGED <<ram, PC, FL, running, output, calls>>

PopClearsCell ==
    /\ Dispatch(POP)
    /\ IF ValidIdx(register[SP], MemSize) /\ ValidReg(operand_a)
       THEN /\ register' = [[register EXCEPT ![Reg(operand_a)] = ram_read(register[SP])]
                               EXCEPT ![SP] = PopSP(@)]
            /\ ram' = [ram EXCEPT ![Idx(register[SP], MemSize)] = 0]
            /\ PC' = Advance(ir, PC)
            /\ calls' = CallsAfterPop(operand_a)
            /\ Observe(TRUE)
            /\ UNCHANGED <<FL, running, fault, output>>
       ELSE Raise("IndexError")

Pop ==
    /\ Dispatch(POP)
    /\ IF ValidIdx(register[SP], MemSize) /\ ValidReg(operand_a)
       THEN /\ register' = [[register EXCEPT ![Reg(operand_a)] = ram_read(register[SP])]
                               EXCEPT ![SP] = PopSP(@)]
            /\ PC' = Advance(ir, PC)
            /\ calls' = CallsAfterPop(operand_a)
            /\ Observe(TRUE)
            /\ UNCHANGED <<ram, FL, running, fault, output>>
       ELSE Raise("IndexError")

Call ==
    /\ Dispatch(CALL)
    /\ LET reg1 == [register EXCEPT ![SP] = PushSP(@)]
           ram1 == [ram EXCEPT ![Idx(reg1[SP], MemSize)] = ReturnAddress(PC)]
       IN
       IF ~ValidIdx(reg1[SP], MemSize)
       THEN /\ register' = reg1
            /\ fault' = "IndexError"
            /\ Observe(FALSE)
            /\ UNCHANGED <<ram, PC, FL, running, output, calls>>
       ELSE IF ~ValidReg(operand_a)
       THEN /\ register' = reg1
            /\ ram' = ram1
            /\ fault' = "IndexError"
            /\ Observe(FALSE)
            /\ UNCHANGED <<PC, FL, running, output, calls>>
       ELSE /\ register' = reg1
            /\ ram' = ram1
            /\ PC' = Advance(ir, reg1[Reg(operand_a)])
            /\ calls' = CallsAfterCall
            /\ Observe(TRUE)
            /\ UNCHANGED <<FL, running, fault, output>>

Ret ==
    /\ Dispatch(RET)
    /\ IF ValidIdx(register[SP], MemSize)
       THEN /\ PC' = Advance(ir, ram_read(register[SP]))
            /\ register' = [register EXCEPT ![SP] = PopSP(@)]
            /\ calls' = CallsAfterRet
            /\ history' = Recent(history) \o
                   << IF RetMatched
                      THEN Observed(TRUE, Len(calls), Top.p, Top.sp)
                      ELSE Observed(TRUE, 0, 0, 0) >>
            /\ UNCHANGED <<ram, FL, running, fault, output>>
       ELSE Raise("IndexError")

Jmp ==
    /\ Dispatch(JMP)
    /\ IF ValidReg(operand_a)
       THEN /\ PC' = Advance(ir, register[Reg(operand_a)])
            /\ Observe(TRUE)
            /\ UNCHANGED <<ram, register, FL, running, fault, output, calls>>
       ELSE Raise("IndexError")

(* self.FL & 0b00000001 == 1 *)
EqualSetAnyFlag(fl) == fl # 0
EqualSet(fl) == BitAnd(fl, FlagE) = 1

(* The PC a conditional jump leaves: the register when taken, PC + 2 else. *)
Branch(taken) ==
    IF taken
    THEN IF ValidReg(operand_a)
         THEN /\ PC' = Advance(ir, register[Reg(operand_a)])
              /\ Observe(TRUE)
              /\ UNCHANGED <<ram, register, FL, running, fault, output, calls>>
         ELSE Raise("IndexError")
    ELSE /\ PC' = Advance(ir, PC + 2)
         /\ Observe(TRUE)
         /\ UNCHANGED <<ram, register, FL, running, fault, output, calls>>

Jeq == Dispatch(JEQ) /\ Branch(EqualSet(FL))

Jne == Dispatch(JNE) /\ Branch(~EqualSet(FL))

InvalidResetsFlags ==
    /\ running /\ fault = "none" /\ FetchOK /\ ir \notin Catalogue
    /\ output' = Append(output, [kind |-> "Invalid instruction", val |-> ir])
    /\ running' = FALSE
    /\ FL' = 0
    /\ PC' = Advance(ir, PC)
    /\ Observe(TRUE)
    /\ UNCHANGED <<ram, register, fault, calls>>

(* The final else of the elif chain. *)
Invalid ==
    /\ running /\ fault = "none" /\ FetchOK /\ ir \notin Catalogue
    /\ output' = Append(output, [kind |-> "Invalid instruction", val |-> ir])
    /\ running' = FALSE
    /\ PC' = Advance(ir, PC)
    /\ Observe(TRUE)
    /\ UNCHANGED <<ram, register, FL, fault, calls>>

Next ==
    \/ FetchFault
    \/ Hlt \/ Ldi \/ Prn
    \/ Add \/ Mul \/ Cmp \/ And \/ Or \/ Xor \/ Not \/ Mod \/ Shl \/ Shr
    \/ Push \/ Pop \/ Call \/ Ret
    \/ Jmp \/ Jeq \/ Jne
    \/ Invalid

----------------------------------------------------------------------------
(* Programs.  CPU.load stores the values of the program file at ascending  *)
(* addresses from 0; the cells after the last line keep the 0 of __init__. *)
MaxSmall == 2
StackLow == 12
MaxDepth == 2

(* An instruction as the bytes of its encoding: the opcode's top two bits *)
(* give the number of operand bytes.                                      *)
Enc(op, a, b) ==
    IF op \div 64 = 0 THEN <<op>>
    ELSE IF op \div 64 = 1 THEN <<op, a>>
    ELSE <<op, a, b>>

Pad(code, n) == code \o [i \in 1..(n - Len(code)) |-> 0]
Fit(code) == IF Len(code) > MemSize THEN SubSeq(code, 1, MemSize) ELSE code

Load(prog) == [i \in 0..(MemSize - 1) |-> IF i < Len(prog) THEN prog[i + 1] ELSE 0]

ValsA == (0..MaxSmall) \cup {255 - k : k \in 0..MaxSmall}
ValsB == 0..MaxSmall
SPVals == (0..StackLow) \cup {InitSP, 255}
Addrs == {5, 253, 254, 255}

(* Two values, an ALU operation on them, one more instruction, HLT. *)
SecondInstrs ==
    {Enc(op, 0, 1) : op \in AluOpcodes}
    \cup {<<LDI, 2, 5>>, <<PRN, 0>>, <<PUSH, 0>>, <<POP, 2>>, <<RET>>, <<>>, <<0>>, <<16>>}
ProgsAlu ==
    {<<LDI, 0, a, LDI, 1, b>> \o Enc(op, 0, 1) \o second \o <<HLT>> :
        a \in ValsA, b \in ValsB, op \in AluOpcodes, second \in SecondInstrs}

(* PUSH r then POP r, for each register and a choice of stack pointers. *)
ProgsStack ==
    {<<LDI, 7, s, LDI, r, v, PUSH, r, POP, r, HLT>> :
        s \in SPVals, r \in 0..(NumRegs - 1), v \in ValsA}

(* A subroutine at 23 that calls itself until r1 = r3 = n, pushing and   *)
(* popping a value around each nested CALL.                              *)
ProgsCall ==
    {<<LDI, 7, s,          \*  0
       LDI, 0, 23,         \*  3
       LDI, 1, 0,          \*  6
       LDI, 2, 1,          \*  9
       LDI, 3, n,          \* 12
       LDI, 4, 38,         \* 15
       CALL, 0,            \* 18
       PRN, 1,             \* 20
       HLT,                \* 22
       CMP, 1, 3,          \* 23
       JEQ, 4,             \* 26
       ADD, 1, 2,          \* 28
       PUSH, 1,            \* 31
       CALL, 0,            \* 33
       POP, 5,             \* 35
       RET,                \* 37
       RET>> :             \* 38
        s \in {0, 1, InitSP, 255}, n \in 0..MaxDepth}

(* A jump through r2 to the block after the HLT, with or without a CMP. *)
JumpProg(a, b, cmp, j) ==
    LET pre == <<LDI, 0, a, LDI, 1, b>> \o cmp
        T == Len(pre) + 3 + 2 + 1
    IN pre \o <<LDI, 2, T, j, 2, HLT, PRN, 0, LDI, 3, 9, HLT>>
ProgsJump ==
    {JumpProg(a, b, cmp, j) :
        a \in ValsB, b \in ValsB, cmp \in {<<>>, <<CMP, 0, 1>>}, j \in {JMP, JEQ, JNE}}

(* Any byte as the opcode at address p, reached by a jump. *)
ProgsAt ==
    {Fit(Pad(<<LDI, 0, p, JMP, 0>>, p) \o <<byte, 0, 1>>) :
        p \in Addrs, byte \in 0..255}

(* Chosen programs: the multiplication example, and handlers that raise. *)
ProgsChosen ==
    {<<LDI, 0, 7, LDI, 1, 6, MUL, 0, 1, PRN, 0, HLT>>,
     <<NOT, 1, SHL, 0, 1, HLT>>,
     <<NOT, 1, SHR, 0, 1, HLT>>,
     <<0>>,
     <<LDI, 8, 1, HLT>>,
     <<PUSH, 8, HLT>>,
     <<CALL, 8, HLT>>,
     <<CALL, 7, HLT>>,
     <<PRN, 9, HLT>>,
     <<NOT, 0, PUSH, 0, POP, 1, NOT, 1, PUSH, 1, LDI, 0, 253, JMP, 0>>}

Programs == ProgsAlu \cup ProgsStack \cup ProgsCall \cup ProgsJump \cup ProgsAt \cup ProgsChosen

Init ==
    /\ \E prog \in Programs : ram = Load(prog)
    /\ register = [r \in 0..(NumRegs - 1) |-> IF r = SP THEN InitSP ELSE 0]
    /\ PC = 0
    /\ FL = 0
    /\ running = TRUE
    /\ fault = "none"
    /\ output = <<>>
    /\ history = <<>>
    /\ calls = <<>>

Spec == Init /\ [][Next]_vars

----------------------------------------------------------------------------
(* Properties.  Last is the instruction the loop dispatched last and the  *)
(* state it was dispatched in; Before is the one dispatched before it.    *)
Acted == history # <<>>
Last == history[Len(history)]
Before == history[1]
ActedTwice == Len(history) = 2

Byte == 0..255
LastA == Last.reg[Reg(Last.a)]
LastB == Last.reg[Reg(Last.b)]
LastIsAlu(op) ==
    /\ Acted /\ Last.ir = op
    /\ ValidReg(Last.a) /\ (op # NOT => ValidReg(Last.b))

(* a OP b on 8-bit registers, for a and b in 0..255. *)
Wrapped(op, a, b) ==
    CASE op = ADD -> (a + b) % 256
      [] op = MUL -> (a * b) % 256
      [] op = AND -> BitAnd(a, b) % 256
      [] op = OR  -> BitOr(a, b) % 256
      [] op = XOR -> BitXor(a, b) % 256
      [] op = NOT -> 255 - a
      [] op = MOD -> (a % b) % 256
      [] op = SHL -> (a * Pow2(b)) % 256
      [] op = SHR -> (a \div Pow2(b)) % 256

(* C1: after an ALU instruction other than CMP on register values a, b in  *)
(* 0..255 (MOD with b # 0), reg_a holds (a OP b) mod 256 and nothing was   *)
(* raised.                                                                 *)
C1_AluResultMod256 ==
    \A op \in AluOpcodes \ {CMP} :
        (/\ LastIsAlu(op)
         /\ LastA \in Byte
         /\ op # NOT => LastB \in Byte
         /\ op = MOD => LastB # 0)
        => /\ fault = "none"
           /\ register[Reg(Last.a)] = Wrapped(op, LastA, IF op = NOT THEN 0 ELSE LastB)

(* C2: every register, the stack pointer included, holds a value in 0..255 *)
(* in every reachable state.                                               *)
C2_RegistersAreBytes == \A r \in 0..(NumRegs - 1) : register[r] \in Byte

(* C3: after CMP the flags register holds exactly the one flag of the      *)
(* numeric ordering of reg_a and reg_b (Less 4, Greater 2, Equal 1), and   *)
(* every register holds what it held before.                               *)
C3_CmpSetsOneFlag ==
    (LastIsAlu(CMP) /\ Last.done) =>
        /\ LastA < LastB => FL = 4
        /\ LastA > LastB => FL = 2
        /\ LastA = LastB => FL = 1
        /\ register = Last.reg
C3_Witness ==
    /\ LastIsAlu(CMP) /\ Last.done
    /\ LastA > LastB /\ LastA > 255 /\ Last.fl = 0 /\ FL = 2

(* C4: an instruction other than CMP, an unrecognized opcode included,    *)
(* leaves FL as it was.                                                    *)
C4_OnlyCmpWritesFL == (Acted /\ Last.ir # CMP) => FL = Last.fl
C4_Witness ==
    /\ ActedTwice /\ Before.ir = CMP /\ Before.done
    /\ Last.ir \notin Catalogue /\ Last.done
    /\ FL = 4

(* C5: PUSH r immediately followed by POP r, r in 0..7, leaves register r *)
(* and the stack pointer as they were before the PUSH.                     *)
C5_PushPopRoundTrip ==
    (/\ ActedTwice
     /\ Before.ir = PUSH /\ Before.done
     /\ Last.ir = POP /\ Last.done
     /\ Before.a \in 0..7 /\ Last.a = Before.a)
    => /\ register[Before.a] = Before.reg[Before.a]
       /\ register[SP] = Before.reg[SP]
C5_Witness ==
    /\ ActedTwice
    /\ Before.ir = PUSH /\ Before.done
    /\ Last.ir = POP /\ Last.done
    /\ Before.a = SP /\ Last.a = SP
    /\ Before.reg[SP] = 0 /\ register[SP] = 0

(* C6: the RET that matches a CALL at address p, the pushes since the CALL *)
(* all popped, resumes at p + 2 with the stack pointer the CALL found, at  *)
(* any nesting depth.                                                      *)
C6_CallRetResumes ==
    (Acted /\ Last.ir = RET /\ Last.done /\ Last.depth > 0)
    => /\ PC = Last.retp + 2
       /\ register[SP] = Last.retsp
C6_Witness ==
    /\ Acted /\ Last.ir = RET /\ Last.done /\ Last.depth >= 2
    /\ PC = Last.retp + 2 /\ register[SP] = Last.retsp

(* C7: a catalogued instruction whose 0b00010000 bit is clear, once it has *)
(* run at address p, leaves PC = p + (opcode >> 6) + 1; one whose bit is   *)
(* set leaves the PC it set itself, with nothing added.                    *)
FallThrough == {HLT, LDI, PRN, ADD, MUL, CMP, AND, OR, XOR, NOT, MOD, SHL, SHR, PUSH, POP}
SetsPC == {CALL, RET, JMP, JEQ, JNE}
C7_PcAdvance ==
    /\ \A op \in FallThrough : (op \div 16) % 2 = 0
    /\ \A op \in SetsPC : (op \div 16) % 2 = 1
    /\ (Acted /\ Last.done) =>
        /\ Last.ir \in FallThrough => PC = Last.pc + (Last.ir \div 64) + 1
        /\ Last.ir \in {CALL, JMP} => PC = register[Reg(Last.a)]
        /\ Last.ir = RET => PC = Last.mem[Idx(Last.reg[SP], MemSize)]
        /\ Last.ir \in {JEQ, JNE} =>
              \/ PC = Last.pc + 2
              \/ ValidReg(Last.a) /\ PC = Last.reg[Reg(Last.a)]
C7_Witness ==
    /\ ActedTwice /\ Before.ir = CALL /\ Before.done /\ Last.pc = Before.reg[Reg(Before.a)]
    /\ Last.ir = CMP /\ Last.done /\ PC = Last.pc + 3

(* C8: a byte that is no catalogued opcode, fetched as the opcode at      *)
(* address p, is reported as an invalid instruction and halts the engine   *)
(* with PC still p.                                                        *)
C8_InvalidLeavesPC ==
    (Acted /\ Last.ir \in Byte \ Catalogue) =>
        /\ ~running /\ fault = "none"
        /\ output # <<>>
        /\ output[Len(output)] = [kind |-> "Invalid instruction", val |-> Last.ir]
        /\ PC = Last.pc

(* C9: MOD with reg_b holding 0 reports a fault and stops the engine, and *)
(* every register, every memory cell and the flags are as before it.       *)
C9_ModByZeroStops ==
    (Acted /\ Last.ir = MOD /\ ValidReg(Last.b) /\ LastB = 0) =>
        /\ fault = "SystemExit"
        /\ output # <<>> /\ output[Len(output)].kind = "Error"
        /\ ~ENABLED Next
        /\ register = Last.reg
        /\ ram = Last.mem
        /\ FL = Last.fl
C9_Witness ==
    /\ Acted /\ Last.ir = MOD /\ ValidReg(Last.b) /\ LastB = 0
    /\ ValidReg(Last.a) /\ LastA = 255 /\ register[Reg(Last.a)] = 255
    /\ fault = "SystemExit"

(* C10: JEQ at p leaves PC at the register's value when the Equal flag is  *)
(* set and at p + 2 otherwise, JNE the other way round (Equal clear: no    *)
(* CMP yet, or Less, or Greater); registers, flags and memory stay.        *)
C10_CondJumps ==
    (Acted /\ Last.done /\ Last.ir \in {JEQ, JNE}) =>
        LET equal == Last.fl % 2 = 1
            taken == IF Last.ir = JEQ THEN equal ELSE ~equal
        IN /\ PC = IF taken THEN Last.reg[Reg(Last.a)] ELSE Last.pc + 2
           /\ register = Last.reg
           /\ FL = Last.fl
           /\ ram = Last.mem
C10_Witness ==
    /\ Acted /\ Last.done /\ Last.ir = JNE /\ Last.fl = 4
    /\ PC = Last.reg[Reg(Last.a)] /\ PC # Last.pc + 2

(* C11: the fetch stays inside memory: at every PC in 0..255, 254 and 255 *)
(* included, the reads at PC, PC + 1 and PC + 2 raise nothing and the      *)
(* instruction is dispatched.                                              *)
C11_FetchStaysInMemory ==
    (running /\ fault = "none" /\ PC \in Byte) =>
        /\ FetchOK
        /\ ~ENABLED FetchFault

(* C12: the program LDI r0,7; LDI r1,6; MUL r0,r1; PRN r0; HLT prints     *)
(* exactly 42 and then halts with register 0 = 42 and the stack pointer    *)
(* still 0xF4; each step moves PC forward, so the run ends.                *)
MulProgram == <<LDI, 0, 7, LDI, 1, 6, MUL, 0, 1, PRN, 0, HLT>>
Printed42 == <<[kind |-> "value", val |-> 42]>>
C12_MulProgramPrints42 ==
    (ram = Load(MulProgram)) =>
        /\ fault = "none"
        /\ Acted => PC > Last.pc
        /\ running => /\ ENABLED Next
                      /\ output = IF PC > 9 THEN Printed42 ELSE <<>>
        /\ ~running => /\ Last.ir = HLT
                       /\ output = Printed42
                       /\ register[0] = 42
                       /\ register[SP] = 244
C12_Witness ==
    /\ ram = Load(MulProgram) /\ ~running /\ fault = "none"
    /\ output = Printed42 /\ register[0] = 42 /\ register[SP] = 244

(* C13: CALL at p takes 1 from the stack pointer, stores p + 2 in the cell *)
(* the new stack pointer designates, then sets PC to the named register;   *)
(* no other register, cell or flag changes.  RET sets PC to the cell the   *)
(* stack pointer designates and then adds 1 to the stack pointer.          *)
C13_CallAndRetEffects ==
    (Acted /\ Last.done) =>
        /\ Last.ir = CALL =>
              /\ register[SP] = Last.reg[SP] - 1
              /\ \A r \in 0..6 : register[r] = Last.reg[r]
              /\ ram[Idx(register[SP], MemSize)] = Last.pc + 2
              /\ \A c \in 0..255 : c # Idx(register[SP], MemSize) => ram[c] = Last.mem[c]
              /\ PC = register[Reg(Last.a)]
              /\ FL = Last.fl
        /\ Last.ir = RET =>
              /\ PC = Last.mem[Idx(Last.reg[SP], MemSize)]
              /\ register[SP] = Last.reg[SP] + 1
              /\ \A r \in 0..6 : register[r] = Last.reg[r]
              /\ ram = Last.mem
              /\ FL = Last.fl
C13_Witness ==
    /\ Acted /\ Last.ir = CALL /\ Last.done
    /\ Last.reg[SP] = 0 /\ register[SP] = 0 - 1
    /\ Last.mem[255] = 0 /\ ram[255] = Last.pc + 2
    /\ PC = register[0] /\ PC # Last.pc

(* C14: HLT halts the engine and changes no register, cell or flag; once   *)
(* halted, by HLT or by an unrecognized opcode, nothing is fetched or run  *)
(* and nothing changes again.                                              *)
C14_HaltIsTerminal ==
    /\ (Acted /\ Last.ir = HLT) =>
          /\ ~running /\ fault = "none"
          /\ register = Last.reg /\ ram = Last.mem /\ FL = Last.fl
    /\ ~running =>
          /\ Acted /\ (Last.ir = HLT \/ Last.ir \notin Catalogue)
          /\ ~ENABLED Next
C14_Witness ==
    /\ Acted /\ Last.ir = HLT /\ ~running
    /\ FL = 1 /\ register[0] # 0 /\ Last.pc < 254 /\ Last.mem[Last.pc + 1] \in Catalogue

(* C15: FL is always one of 0b000, 0b001, 0b010, 0b100. *)
C15_AtMostOneFlag == FL \in {0, 1, 2, 4}
C15_Witness ==
    /\ ActedTwice /\ Before.ir = CMP /\ Before.fl = 4 /\ Before.done
    /\ FL = 1

(* C16: every memory cell holds a value in 0..255 in every reachable state. *)
C16_MemoryCellsAreBytes == \A c \in 0..255 : ram[c] \in Byte

(* C17: only PUSH and CALL write memory, and only the cell the decremented *)
(* stack pointer designates; every other instruction leaves all 256 cells. *)
C17_OnlyPushAndCallWrite ==
    Acted =>
        IF Last.ir \in {PUSH, CALL}
        THEN /\ \A c \in 0..255 :
                   c # Idx(Last.reg[SP] - 1, MemSize) => ram[c] = Last.mem[c]
             /\ Last.done =>
                   ram[Idx(Last.reg[SP] - 1, MemSize)] =
                       IF Last.ir = CALL THEN Last.pc + 2 ELSE register[Reg(Last.a)]
        ELSE ram = Last.mem
C17_Witness ==
    /\ Acted /\ Last.ir = PUSH /\ Last.done
    /\ register[SP] = 9 /\ Last.mem[9] = Last.a /\ ram[9] = 255 /\ Last.pc = 6

====
